---- MODULE Spec2Model ----
(***************************************************************************)
(* Log-artifact persistence of skyvern/forge/sdk/log_artifacts.py.         *)
(*                                                                         *)
(* The four save operations (save_step_logs, save_task_logs,               *)
(* save_workflow_run_logs, save_workflow_run_block_logs) run behind the    *)
(* with_skyvern_context decorator, filter the context's log and hand it to *)
(* _save_log_artifacts, which looks up / updates / creates a raw-log and a *)
(* formatted-log artifact inside one try/except.  Each await of the        *)
(* coroutine is one step of the model; the collaborators' outcomes (a      *)
(* lookup result, an exception) are inputs of the steps.                   *)
(***************************************************************************)
EXTENDS Integers, Sequences, FiniteSets, TLC

VARIABLES
    context,   \* skyvern_context.current(): active flag, log, organization_id
    store,     \* the artifact store: a sequence, artifact_id = index
    call,      \* per asyncio task: the frame of its save call
    started,   \* number of save calls begun so far
    served     \* the entities whose logs a returned call has saved without error

vars == <<context, store, call, started, served>>

(* ------------------------------ bounds -------------------------------- *)

MaxLog == 2
MaxCalls == 2
MaxInitStore == 2

(* ----------------------------- vocabulary ----------------------------- *)

Tasks == {"A", "B"}

\* Python's None, and a key a dict does not hold; neither is an id value.
None == "<None>"
Missing == "<missing>"
\* What primary_key_from_log_entity_type yields when it raises.
ValueError == "<ValueError>"

\* The id values a save operation may be given, and the ids of real entities.
IdValues == {"", "a"}
EntityIds == {"a"}
OrgIds == {"o1"}
Outcomes == {"ok", "raise"}

Fields == {"step_id", "task_id", "workflow_run_id", "workflow_run_block_id"}

STEP == "STEP"
TASK == "TASK"
WORKFLOW_RUN == "WORKFLOW_RUN"
WORKFLOW_RUN_BLOCK == "WORKFLOW_RUN_BLOCK"
\* A LogEntityType outside the four that the code names.
UNRECOGNIZED == "UNRECOGNIZED"

Kinds == {STEP, TASK, WORKFLOW_RUN, WORKFLOW_RUN_BLOCK}

SKYVERN_LOG_RAW == "SKYVERN_LOG_RAW"
SKYVERN_LOG == "SKYVERN_LOG"
ArtifactTypes == {SKYVERN_LOG_RAW, SKYVERN_LOG}

\* The entity-id field a save operation filters on and passes on.
FieldOfKind(kind) ==
    CASE kind = STEP -> "step_id"
      [] kind = TASK -> "task_id"
      [] kind = WORKFLOW_RUN -> "workflow_run_id"
      [] kind = WORKFLOW_RUN_BLOCK -> "workflow_run_block_id"

(* ----------------------------- log entries ---------------------------- *)

\* A log entry is a dict; a key it lacks is Missing, and event numbers it.

\* Entries that carry every id field, each holding the id "a".
EntityShapes == {[f \in Fields |-> "a"]}

\* Also entries without id fields, with empty ones, or with step_id alone.
FilterShapes ==
    {[f \in Fields |-> x] : x \in {Missing} \cup IdValues}
        \cup {[f \in Fields |-> IF f = "step_id" THEN "a" ELSE Missing]}

MakeEntry(n, shape) ==
    [event |-> n,
     step_id |-> shape["step_id"],
     task_id |-> shape["task_id"],
     workflow_run_id |-> shape["workflow_run_id"],
     workflow_run_block_id |-> shape["workflow_run_block_id"]]

FieldValue(entry, field) ==
    CASE field = "step_id" -> entry.step_id
      [] field = "task_id" -> entry.task_id
      [] field = "workflow_run_id" -> entry.workflow_run_id
      [] field = "workflow_run_block_id" -> entry.workflow_run_block_id

\* dict.get(key, default)
DictGet(entry, field, default) ==
    IF FieldValue(entry, field) = Missing THEN default ELSE FieldValue(entry, field)

\* [entry for entry in log if entry.get(field, "") == value]
FilterLog(log, field, value) ==
    LET Keep(entry) == DictGet(entry, field, "") = value
    IN SelectSeq(log, Keep)

(* ------------------------------ encoders ------------------------------ *)

\* json.dumps(log, cls=SkyvernJSONLogEncoder, indent=2): JSON text of the log.
JsonDumps(log) == <<"json", log>>

\* SkyvernLogEncoder.encode(log): the human-readable text of the log.
LogEncode(log) == <<"text", log>>

\* str.encode(): the UTF-8 bytes of a text.
StrEncode(text) == <<"utf-8", text>>

(* --------------------------- artifact store --------------------------- *)

Artifact(artifact_type, step_id, task_id, workflow_run_id, workflow_run_block_id, organization_id, data) ==
    [artifact_type |-> artifact_type,
     step_id |-> step_id,
     task_id |-> task_id,
     workflow_run_id |-> workflow_run_id,
     workflow_run_block_id |-> workflow_run_block_id,
     organization_id |-> organization_id,
     data |-> data]

\* The artifacts of the store addressed by (type, entity-id fields, org).
Matching(s, artifact_type, c) ==
    {i \in DOMAIN s :
        /\ s[i].artifact_type = artifact_type
        /\ s[i].step_id = c.step_id
        /\ s[i].task_id = c.task_id
        /\ s[i].workflow_run_id = c.workflow_run_id
        /\ s[i].workflow_run_block_id = c.workflow_run_block_id
        /\ s[i].organization_id = c.organization_id}

\* app.DATABASE.get_artifact_by_entity_id: the results it may return; 0 is
\* "no artifact" (falsy).
GetArtifactByEntityId(s, artifact_type, c) ==
    IF Matching(s, artifact_type, c) = {} THEN {0} ELSE Matching(s, artifact_type, c)

\* app.ARTIFACT_MANAGER.update_artifact_data: overwrite the bytes in place.
UpdateArtifactData(s, artifact_id, data) ==
    [s EXCEPT ![artifact_id].data = data]

\* app.ARTIFACT_MANAGER.create_log_artifact: a new artifact.
CreateLogArtifact(s, artifact_type, c, data) ==
    Append(s, Artifact(artifact_type, c.step_id, c.task_id, c.workflow_run_id,
                       c.workflow_run_block_id, c.organization_id, data))

(* ------------------------------ call frames --------------------------- *)

\* The frame of a task that is not inside a save call.
IdleFrame ==
    [pc |-> "idle",
     func |-> "",
     seq |-> 0,
     has_context |-> FALSE,
     organization_id |-> None,
     log |-> <<>>,
     log_entity_type |-> None,
     log_entity_id |-> None,
     step_id |-> None,
     task_id |-> None,
     workflow_run_id |-> None,
     workflow_run_block_id |-> None,
     log_json |-> <<>>,
     log_artifact |-> 0,
     formatted_log |-> <<>>,
     formatted_log_artifact |-> 0,
     e |-> None,
     calls |-> <<>>,
     warnings |-> 0,
     errors |-> 0,
     raised |-> FALSE]

\* The collaborator invocations a call records, in order.
GetCall(artifact_type, c, result, raised) ==
    [op |-> "get_artifact_by_entity_id",
     artifact_type |-> artifact_type,
     step_id |-> c.step_id,
     task_id |-> c.task_id,
     workflow_run_id |-> c.workflow_run_id,
     workflow_run_block_id |-> c.workflow_run_block_id,
     organization_id |-> c.organization_id,
     result |-> result,
     raised |-> raised]

UpdateCall(artifact_id, c, data, primary_key, raised) ==
    [op |-> "update_artifact_data",
     artifact_id |-> artifact_id,
     organization_id |-> c.organization_id,
     data |-> data,
     primary_key |-> primary_key,
     raised |-> raised]

CreateCall(artifact_type, c, data, artifact_id, raised) ==
    [op |-> "create_log_artifact",
     organization_id |-> c.organization_id,
     step_id |-> c.step_id,
     task_id |-> c.task_id,
     workflow_run_id |-> c.workflow_run_id,
     workflow_run_block_id |-> c.workflow_run_block_id,
     log_entity_type |-> c.log_entity_type,
     log_entity_id |-> c.log_entity_id,
     artifact_type |-> artifact_type,
     data |-> data,
     artifact_id |-> artifact_id,
     raised |-> raised]

(* ------------------------- log_artifacts.py --------------------------- *)

\* Mutant: the early return is missing, so func runs without a context and
\* its read of current().log raises to the caller.
SkipWithoutContextFallsThrough(c, func) ==
    [c EXCEPT !.pc = "done", !.func = func, !.warnings = @ + 1, !.raised = TRUE]

\* with_skyvern_context, no context: warn and return without running func.
SkipWithoutContext(c, func) ==
    [c EXCEPT !.pc = "done", !.func = func, !.warnings = @ + 1]

\* Mutant: the primary key is left at update_artifact_data's default.
PrimaryKeyAlwaysTaskId(log_entity_type) == "task_id"

PrimaryKeyFromLogEntityType(log_entity_type) ==
    CASE log_entity_type = STEP -> "step_id"
      [] log_entity_type = TASK -> "task_id"
      [] log_entity_type = WORKFLOW_RUN -> "workflow_run_id"
      [] log_entity_type = WORKFLOW_RUN_BLOCK -> "workflow_run_block_id"
      [] OTHER -> ValueError

\* The steps of the raw pass and of the formatted pass that may raise.
RawStages ==
    {"serialize_raw", "lookup_raw", "primary_key_raw", "update_raw", "create_raw"}

FormattedStages ==
    {"serialize_formatted", "lookup_formatted", "primary_key_formatted",
     "update_formatted", "create_formatted"}

\* Mutant: the handler logs and re-raises.
ExceptReraises(c, stage) ==
    [c EXCEPT !.pc = "done", !.e = stage, !.errors = @ + 1, !.raised = TRUE]

\* Mutant: a failed json.dumps is logged and the call goes on to the formatted pass.
ExceptSkipsRawSerialization(c, stage) ==
    IF stage = "serialize_raw"
    THEN [c EXCEPT !.pc = "serialize_formatted", !.e = stage, !.errors = @ + 1]
    ELSE [c EXCEPT !.pc = "done", !.e = stage, !.errors = @ + 1]

\* Mutant: one try block per pass, so a failed raw pass is followed by the
\* formatted pass.
ExceptPerPass(c, stage) ==
    IF stage \in RawStages
    THEN [c EXCEPT !.pc = "serialize_formatted", !.e = stage, !.errors = @ + 1]
    ELSE [c EXCEPT !.pc = "done", !.e = stage, !.errors = @ + 1]

\* except Exception as e: LOG.error(...); the call then returns normally.
Except(c, stage) ==
    [c EXCEPT !.pc = "done", !.e = stage, !.errors = @ + 1]

\* The frame on entry to _save_log_artifacts.
EnterSaveLogArtifacts(c, log, log_entity_type, log_entity_id, organization_id, ids) ==
    [c EXCEPT !.pc = "serialize_raw",
              !.log = log,
              !.log_entity_type = log_entity_type,
              !.log_entity_id = log_entity_id,
              !.organization_id = organization_id,
              !.step_id = ids["step_id"],
              !.task_id = ids["task_id"],
              !.workflow_run_id = ids["workflow_run_id"],
              !.workflow_run_block_id = ids["workflow_run_block_id"]]

\* The keyword arguments of a save operation: its own id field, the rest None.
OnlyField(field, value) == [f \in Fields |-> IF f = field THEN value ELSE None]

\* The body shared by the four decorated save operations.
SaveLogs(p, func, log_entity_type, value) ==
    /\ call[p].pc = "idle"
    /\ started < MaxCalls
    /\ started' = started + 1
    /\ LET c == [call[p] EXCEPT !.func = func, !.seq = started + 1,
                                !.has_context = context.active]
       IN IF ~context.active
          THEN call' = [call EXCEPT ![p] = SkipWithoutContext(c, func)]
          ELSE LET field == FieldOfKind(log_entity_type)
                   log == context.log
                   current_log == FilterLog(log, field, value)
               IN call' = [call EXCEPT ![p] =
                      EnterSaveLogArtifacts(c, current_log, log_entity_type, value,
                                            context.organization_id,
                                            OnlyField(field, value))]
    /\ UNCHANGED <<context, store, served>>

SaveStepLogs(p, step_id) == SaveLogs(p, "save_step_logs", STEP, step_id)

SaveTaskLogs(p, task_id) == SaveLogs(p, "save_task_logs", TASK, task_id)

SaveWorkflowRunLogs(p, workflow_run_id) ==
    SaveLogs(p, "save_workflow_run_logs", WORKFLOW_RUN, workflow_run_id)

SaveWorkflowRunBlockLogs(p, workflow_run_block_id) ==
    SaveLogs(p, "save_workflow_run_block_logs", WORKFLOW_RUN_BLOCK, workflow_run_block_id)

\* A direct call of _save_log_artifacts with a LogEntityType the code does not
\* name, scoped by step_id as save_step_logs scopes its own.
SaveLogArtifacts(p, log_entity_type, step_id) ==
    /\ call[p].pc = "idle"
    /\ started < MaxCalls
    /\ context.active
    /\ started' = started + 1
    /\ LET c == [call[p] EXCEPT !.func = "_save_log_artifacts", !.seq = started + 1,
                                !.has_context = TRUE]
       IN call' = [call EXCEPT ![p] =
              EnterSaveLogArtifacts(c, FilterLog(context.log, "step_id", step_id),
                                    log_entity_type, step_id, context.organization_id,
                                    OnlyField("step_id", step_id))]
    /\ UNCHANGED <<context, store, served>>

\* Mutant: the lookup's result is ignored and an artifact is always created.
NeverTruthy(artifact) == FALSE

\* if log_artifact: / if formatted_log_artifact:
Truthy(artifact) == artifact # 0

\* data=log_json.encode()
RawPayload(c) == StrEncode(c.log_json)

\* Mutant: the second create/update is a copy of the first, data included.
FormattedPayloadFromRaw(c) == StrEncode(c.log_json)

\* data=formatted_log.encode()
FormattedPayload(c) == StrEncode(c.formatted_log)

\* Mutant: after its write the raw pass looks the artifact up once more and
\* writes again.
RawPassDoneRetries(c) ==
    [c EXCEPT !.pc = IF Len(c.calls) < 4 THEN "lookup_raw" ELSE "serialize_formatted"]

\* The raw pass is over: control reaches SkyvernLogEncoder.encode.
RawPassDone(c) == [c EXCEPT !.pc = "serialize_formatted"]

\* The formatted pass is over: the try block ends and the call returns.
FormattedPassDone(c) == [c EXCEPT !.pc = "done"]

\* log_json = json.dumps(log, cls=SkyvernJSONLogEncoder, indent=2)
SerializeRaw(p, outcome) ==
    LET c == call[p] IN
    /\ c.pc = "serialize_raw"
    /\ call' = [call EXCEPT ![p] =
           IF outcome = "raise"
           THEN Except(c, "serialize_raw")
           ELSE [c EXCEPT !.pc = "lookup_raw", !.log_json = JsonDumps(c.log)]]
    /\ UNCHANGED <<context, store, started, served>>

\* log_artifact = await app.DATABASE.get_artifact_by_entity_id(SKYVERN_LOG_RAW, ...)
LookupRaw(p, outcome) ==
    LET c == call[p] IN
    /\ c.pc = "lookup_raw"
    /\ \E result \in GetArtifactByEntityId(store, SKYVERN_LOG_RAW, c) :
         call' = [call EXCEPT ![p] =
           IF outcome = "raise"
           THEN Except([c EXCEPT !.calls = Append(@, GetCall(SKYVERN_LOG_RAW, c, 0, TRUE))],
                       "lookup_raw")
           ELSE [c EXCEPT !.pc = "reconcile_raw",
                          !.log_artifact = result,
                          !.calls = Append(@, GetCall(SKYVERN_LOG_RAW, c, result, FALSE))]]
    /\ UNCHANGED <<context, store, started, served>>

\* if log_artifact: update_artifact_data(...) else: create_log_artifact(...)
ReconcileRaw(p, outcome) ==
    LET c == call[p]
        data == RawPayload(c)
        primary_key == PrimaryKeyFromLogEntityType(c.log_entity_type)
        failed == outcome = "raise"
    IN
    /\ c.pc = "reconcile_raw"
    /\ IF Truthy(c.log_artifact)
       THEN IF primary_key = ValueError
            THEN /\ call' = [call EXCEPT ![p] = Except(c, "primary_key_raw")]
                 /\ UNCHANGED store
            ELSE LET made == [c EXCEPT !.calls = Append(@,
                                 UpdateCall(c.log_artifact, c, data, primary_key, failed))]
                 IN IF failed
                    THEN /\ call' = [call EXCEPT ![p] = Except(made, "update_raw")]
                         /\ UNCHANGED store
                    ELSE /\ call' = [call EXCEPT ![p] = RawPassDone(made)]
                         /\ store' = UpdateArtifactData(store, c.log_artifact, data)
       ELSE IF failed
            THEN /\ call' = [call EXCEPT ![p] =
                        Except([c EXCEPT !.calls = Append(@,
                                   CreateCall(SKYVERN_LOG_RAW, c, data, 0, TRUE))],
                               "create_raw")]
                 /\ UNCHANGED store
            ELSE /\ call' = [call EXCEPT ![p] =
                        RawPassDone([c EXCEPT !.calls = Append(@,
                                   CreateCall(SKYVERN_LOG_RAW, c, data, Len(store) + 1, FALSE))])]
                 /\ store' = CreateLogArtifact(store, SKYVERN_LOG_RAW, c, data)
    /\ UNCHANGED <<context, started, served>>

\* formatted_log = SkyvernLogEncoder.encode(log)
SerializeFormatted(p, outcome) ==
    LET c == call[p] IN
    /\ c.pc = "serialize_formatted"
    /\ call' = [call EXCEPT ![p] =
           IF outcome = "raise"
           THEN Except(c, "serialize_formatted")
           ELSE [c EXCEPT !.pc = "lookup_formatted", !.formatted_log = LogEncode(c.log)]]
    /\ UNCHANGED <<context, store, started, served>>

\* formatted_log_artifact = await app.DATABASE.get_artifact_by_entity_id(SKYVERN_LOG, ...)
LookupFormatted(p, outcome) ==
    LET c == call[p] IN
    /\ c.pc = "lookup_formatted"
    /\ \E result \in GetArtifactByEntityId(store, SKYVERN_LOG, c) :
         call' = [call EXCEPT ![p] =
           IF outcome = "raise"
           THEN Except([c EXCEPT !.calls = Append(@, GetCall(SKYVERN_LOG, c, 0, TRUE))],
                       "lookup_formatted")
           ELSE [c EXCEPT !.pc = "reconcile_formatted",
                          !.formatted_log_artifact = result,
                          !.calls = Append(@, GetCall(SKYVERN_LOG, c, result, FALSE))]]
    /\ UNCHANGED <<context, store, started, served>>

\* if formatted_log_artifact: update_artifact_data(...) else: create_log_artifact(...)
ReconcileFormatted(p, outcome) ==
    LET c == call[p]
        data == FormattedPayload(c)
        primary_key == PrimaryKeyFromLogEntityType(c.log_entity_type)
        failed == outcome = "raise"
    IN
    /\ c.pc = "reconcile_formatted"
    /\ IF Truthy(c.formatted_log_artifact)
       THEN IF primary_key = ValueError
            THEN /\ call' = [call EXCEPT ![p] = Except(c, "primary_key_formatted")]
                 /\ UNCHANGED store
            ELSE LET made == [c EXCEPT !.calls = Append(@,
                                 UpdateCall(c.formatted_log_artifact, c, data, primary_key, failed))]
                 IN IF failed
                    THEN /\ call' = [call EXCEPT ![p] = Except(made, "update_formatted")]
                         /\ UNCHANGED store
                    ELSE /\ call' = [call EXCEPT ![p] = FormattedPassDone(made)]
                         /\ store' = UpdateArtifactData(store, c.formatted_log_artifact, data)
       ELSE IF failed
            THEN /\ call' = [call EXCEPT ![p] =
                        Except([c EXCEPT !.calls = Append(@,
                                   CreateCall(SKYVERN_LOG, c, data, 0, TRUE))],
                               "create_formatted")]
                 /\ UNCHANGED store
            ELSE /\ call' = [call EXCEPT ![p] =
                        FormattedPassDone([c EXCEPT !.calls = Append(@,
                                   CreateCall(SKYVERN_LOG, c, data, Len(store) + 1, FALSE))])]
                 /\ store' = CreateLogArtifact(store, SKYVERN_LOG, c, data)
    /\ UNCHANGED <<context, started, served>>

\* The awaited save call has returned (or raised) to its caller.
Return(p) ==
    /\ call[p].pc = "done"
    /\ call' = [call EXCEPT ![p] = IdleFrame]
    /\ served' = IF call[p].has_context /\ call[p].e = None
                 THEN served \cup {<<call[p].log_entity_type, call[p].log_entity_id>>}
                 ELSE served
    /\ UNCHANGED <<context, store, started>>

(* --------------------------- execution context ------------------------ *)

\* The code of task p outside a save call: it awaits each save call, so it
\* takes these steps only while it is not inside one.

\* An execution starts: a fresh context with an empty log.
EnterContext(p, organization_id) ==
    /\ call[p].pc = "idle"
    /\ ~context.active
    /\ context' = [active |-> TRUE, log |-> <<>>, organization_id |-> organization_id]
    /\ UNCHANGED <<store, call, started, served>>

\* The execution ends: its context is discarded.
ExitContext(p) ==
    /\ call[p].pc = "idle"
    /\ context.active
    /\ context' = [active |-> FALSE, log |-> <<>>, organization_id |-> None]
    /\ UNCHANGED <<store, call, started, served>>

\* The running execution logs one more entry.
AppendLog(p, shape) ==
    /\ call[p].pc = "idle"
    /\ context.active
    /\ Len(context.log) < MaxLog
    /\ context' = [context EXCEPT !.log = Append(@, MakeEntry(Len(@) + 1, shape))]
    /\ UNCHANGED <<store, call, started, served>>

(* ---------------------------- specifications -------------------------- *)

NoContext == [active |-> FALSE, log |-> <<>>, organization_id |-> None]

Init ==
    /\ context = NoContext
    /\ store = <<>>
    /\ call = [p \in Tasks |-> IdleFrame]
    /\ started = 0
    /\ served = {}

Steps(p, outcome) ==
    \/ SerializeRaw(p, outcome)
    \/ LookupRaw(p, outcome)
    \/ ReconcileRaw(p, outcome)
    \/ SerializeFormatted(p, outcome)
    \/ LookupFormatted(p, outcome)
    \/ ReconcileFormatted(p, outcome)

SaveCalls(p, value) ==
    \/ SaveStepLogs(p, value)
    \/ SaveTaskLogs(p, value)
    \/ SaveWorkflowRunLogs(p, value)
    \/ SaveWorkflowRunBlockLogs(p, value)

Execution(p, shapes) ==
    \/ \E organization_id \in OrgIds : EnterContext(p, organization_id)
    \/ ExitContext(p)
    \/ \E shape \in shapes : AppendLog(p, shape)

\* One task saving logs of any entity, with collaborators that may fail.
Next ==
    \/ \E value \in EntityIds : SaveCalls("A", value)
    \/ \E value \in EntityIds : SaveLogArtifacts("A", UNRECOGNIZED, value)
    \/ \E outcome \in Outcomes : Steps("A", outcome)
    \/ Return("A")
    \/ Execution("A", EntityShapes)

Spec == Init /\ [][Next]_vars

\* The same task, given any id value over logs of every entry shape.
NextFilter ==
    \/ \E value \in IdValues : SaveCalls("A", value)
    \/ \E outcome \in Outcomes : Steps("A", outcome)
    \/ Return("A")
    \/ Execution("A", FilterShapes)

SpecFilter == Init /\ [][NextFilter]_vars

\* The artifacts a store may hold before the first call: written by an
\* earlier run, so their bytes encode no log of this one (event 0).
StaleLog == <<MakeEntry(0, [f \in Fields |-> Missing])>>

StaleArtifacts ==
    {Artifact(t, ids["step_id"], ids["task_id"], ids["workflow_run_id"],
              ids["workflow_run_block_id"], o,
              StrEncode(IF t = SKYVERN_LOG_RAW THEN JsonDumps(StaleLog) ELSE LogEncode(StaleLog))) :
        t \in ArtifactTypes, ids \in {OnlyField(f, "a") : f \in {"step_id", "task_id"}},
        o \in OrgIds}

SameEntity(a, b) ==
    /\ a.artifact_type = b.artifact_type
    /\ a.step_id = b.step_id
    /\ a.task_id = b.task_id
    /\ a.workflow_run_id = b.workflow_run_id
    /\ a.workflow_run_block_id = b.workflow_run_block_id
    /\ a.organization_id = b.organization_id

\* Stores of at most MaxInitStore artifacts, at most one per type and entity.
InitStores ==
    {s \in UNION {[1..n -> StaleArtifacts] : n \in 0..MaxInitStore} :
        \A i, j \in DOMAIN s : i # j => ~SameEntity(s[i], s[j])}

InitAnyStore ==
    /\ context = NoContext
    /\ store \in InitStores
    /\ call = [p \in Tasks |-> IdleFrame]
    /\ started = 0
    /\ served = {}

\* One task, one call at a time, collaborators that never fail.
NextSeq ==
    \/ \E value \in EntityIds : SaveCalls("A", value)
    \/ Steps("A", "ok")
    \/ Return("A")
    \/ Execution("A", EntityShapes)

SpecSeq == InitAnyStore /\ [][NextSeq]_vars

\* Two tasks of one execution, which lasts as long as they run, saving the
\* logs of the same step concurrently, with collaborators that do not fail.
NextConc ==
    \E p \in Tasks :
        \/ \E value \in EntityIds : SaveStepLogs(p, value)
        \/ Steps(p, "ok")
        \/ Return(p)
        \/ \E organization_id \in OrgIds : EnterContext(p, organization_id)
        \/ \E shape \in EntityShapes : AppendLog(p, shape)

SpecConc == InitAnyStore /\ [][NextConc]_vars

(* -------------------------------- claims ------------------------------ *)

Done(p) == call[p].pc = "done"

IsGet(inv, artifact_type) ==
    inv.op = "get_artifact_by_entity_id" /\ inv.artifact_type = artifact_type

IsCreate(inv, artifact_type) ==
    inv.op = "create_log_artifact" /\ inv.artifact_type = artifact_type

\* A lookup that returned an artifact / returned none.
Found(inv) == inv.op = "get_artifact_by_entity_id" /\ ~inv.raised /\ inv.result # 0
Absent(inv) == inv.op = "get_artifact_by_entity_id" /\ ~inv.raised /\ inv.result = 0

\* The four save operations, as against a direct call of _save_log_artifacts.
SaveFuncs ==
    {"save_step_logs", "save_task_logs", "save_workflow_run_logs",
     "save_workflow_run_block_logs"}

\* The filter of the specification: the entries that hold field, equal to value.
ExactFilter(log, field, value) ==
    LET Keep(entry) == FieldValue(entry, field) # Missing /\ FieldValue(entry, field) = value
    IN SelectSeq(log, Keep)

\* C1: the log a save operation hands to _save_log_artifacts is exactly the
\* subsequence of the context's log whose entries hold the operation's id
\* field with the given value, in order; entries lacking the field are
\* excluded for every value.
C1_FilterIsExactSubsequence ==
    [][\A p \in Tasks :
          (call[p].pc = "idle" /\ call'[p].pc = "serialize_raw"
              /\ call'[p].func \in SaveFuncs)
          => call'[p].log = ExactFilter(context.log,
                                        FieldOfKind(call'[p].log_entity_type),
                                        call'[p].log_entity_id)]_vars

\* C2: a save operation called without an execution context returns normally
\* having made no lookup, update or create, and having warned exactly once.
C2_NoContextIsSkipped ==
    \A p \in Tasks :
        (call[p].pc # "idle" /\ ~call[p].has_context)
        => /\ Done(p)
           /\ call[p].func \in SaveFuncs
           /\ call[p].calls = <<>>
           /\ call[p].warnings = 1
           /\ call[p].errors = 0
           /\ ~call[p].raised

\* C2 witness: save_workflow_run_logs has returned from a call made without
\* a context.
C2_Witness ==
    \E p \in Tasks :
        Done(p) /\ ~call[p].has_context /\ call[p].func = "save_workflow_run_logs"

\* C3: in each pass, a lookup that returns an artifact is followed by an
\* update of that artifact's id with the primary key of the entity kind, and
\* the pass never creates.
C3_ExistingArtifactIsUpdated ==
    \A p \in Tasks :
        LET c == call[p] IN
        c.log_entity_type \in Kinds =>
            \A i \in DOMAIN c.calls :
                Found(c.calls[i]) =>
                    /\ IF i < Len(c.calls)
                       THEN /\ c.calls[i + 1].op = "update_artifact_data"
                            /\ c.calls[i + 1].artifact_id = c.calls[i].result
                            /\ c.calls[i + 1].primary_key = FieldOfKind(c.log_entity_type)
                       ELSE c.pc = IF c.calls[i].artifact_type = SKYVERN_LOG_RAW
                                   THEN "reconcile_raw" ELSE "reconcile_formatted"
                    /\ \A j \in DOMAIN c.calls :
                           ~IsCreate(c.calls[j], c.calls[i].artifact_type)

\* C3 witness: a finished call found both artifacts and updated both.
C3_Witness ==
    \E p \in Tasks :
        /\ Done(p)
        /\ call[p].log_entity_type = WORKFLOW_RUN_BLOCK
        /\ Len(call[p].calls) = 4
        /\ Found(call[p].calls[1])
        /\ call[p].calls[2].op = "update_artifact_data"
        /\ Found(call[p].calls[3])
        /\ call[p].calls[4].op = "update_artifact_data"

\* The entity-id fields of an invocation: the kind's own field holds the
\* entity id and the other three are None.
OneEntityId(inv, c) ==
    \A f \in Fields :
        FieldValue(inv, f) = IF f = FieldOfKind(c.log_entity_type)
                             THEN c.log_entity_id ELSE None

\* C4: when both lookups of a call return no artifact, the call invokes
\* create exactly twice, raw first and formatted second, each with its own
\* encoded payload and with the kind's one entity-id field set, and never
\* invokes update.
C4_AbsentArtifactsAreCreated ==
    \A p \in Tasks :
        LET c == call[p] IN
        (/\ Done(p)
         /\ c.log_entity_type \in Kinds
         /\ \E i \in DOMAIN c.calls : Absent(c.calls[i]) /\ IsGet(c.calls[i], SKYVERN_LOG_RAW)
         /\ \E j \in DOMAIN c.calls : Absent(c.calls[j]) /\ IsGet(c.calls[j], SKYVERN_LOG))
        => /\ Len(c.calls) = 4
           /\ IsGet(c.calls[1], SKYVERN_LOG_RAW)
           /\ IsCreate(c.calls[2], SKYVERN_LOG_RAW)
           /\ c.calls[2].data = StrEncode(JsonDumps(c.log))
           /\ OneEntityId(c.calls[2], c)
           /\ IsGet(c.calls[3], SKYVERN_LOG)
           /\ IsCreate(c.calls[4], SKYVERN_LOG)
           /\ c.calls[4].data = StrEncode(LogEncode(c.log))
           /\ OneEntityId(c.calls[4], c)

\* C4 witness: a finished save_task_logs call found neither artifact and
\* created both from a non-empty log.
C4_Witness ==
    \E p \in Tasks :
        /\ Done(p)
        /\ call[p].log_entity_type = TASK
        /\ call[p].log # <<>>
        /\ Len(call[p].calls) = 4
        /\ IsCreate(call[p].calls[2], SKYVERN_LOG_RAW)
        /\ IsCreate(call[p].calls[4], SKYVERN_LOG)
        /\ ~call[p].calls[4].raised

\* C5: no save call raises to its caller: whichever step fails, the failure
\* is caught, logged once, and the call returns.
C5_ErrorsAreSwallowed ==
    \A p \in Tasks :
        LET c == call[p] IN
        /\ ~c.raised
        /\ c.e # None => Done(p) /\ c.errors = 1
        /\ \A i \in DOMAIN c.calls :
               c.calls[i].raised => i = Len(c.calls) /\ c.e \in RawStages \cup FormattedStages

\* C5 witness: the last step of a call, the create of the formatted pass,
\* raised and the call has returned.
C5_Witness ==
    \E p \in Tasks :
        /\ Done(p)
        /\ call[p].e = "create_formatted"
        /\ call[p].calls[4].raised

\* C6: a call that reaches the primary-key derivation with an unrecognized
\* kind propagates the derivation's error to its caller instead of catching
\* and logging it.
C6_UnrecognizedKindPropagates ==
    \A p \in Tasks :
        (Done(p) /\ call[p].e \in {"primary_key_raw", "primary_key_formatted"})
        => call[p].raised /\ call[p].errors = 0

\* C7: a call whose raw encoder raises does not raise, makes no lookup, update
\* or create, and leaves the store and the context as they were.
C7_RawEncoderFailureChangesNothing ==
    /\ [](\A p \in Tasks :
              call[p].e = "serialize_raw"
              => Done(p) /\ ~call[p].raised /\ call[p].calls = <<>> /\ call[p].errors = 1)
    /\ [][\A p \in Tasks :
              (call[p].pc = "serialize_raw" /\ call'[p].pc # "serialize_raw"
                  /\ call'[p].pc # "lookup_raw")
              => /\ call'[p].e = "serialize_raw"
                 /\ store' = store
                 /\ context' = context
                 /\ served' = served]_vars

\* C7 witness: the raw encoder raised in a call made over a non-empty store.
C7_Witness ==
    \E p \in Tasks :
        /\ Done(p)
        /\ call[p].e = "serialize_raw"
        /\ store # <<>>

\* C8 as stated: a failure in the raw pass does not prevent the formatted pass
\* from performing its own lookup.
C8_PassesIndependent ==
    \A p \in Tasks :
        (Done(p) /\ call[p].e \in RawStages)
        => \E i \in DOMAIN call[p].calls : IsGet(call[p].calls[i], SKYVERN_LOG)

\* C8 as amended: both passes run inside one try block, so a failure in the
\* raw pass ends the call: the formatted pass makes no lookup and no write,
\* and a formatted lookup happens only after the raw write succeeded.
C8_RawFailureEndsTheCall ==
    \A p \in Tasks :
        LET c == call[p] IN
        /\ c.e \in RawStages
           => /\ Done(p)
              /\ c.formatted_log = <<>>
              /\ Len(c.calls) <= 2
              /\ \A i \in DOMAIN c.calls :
                     ~IsGet(c.calls[i], SKYVERN_LOG) /\ ~IsCreate(c.calls[i], SKYVERN_LOG)
        /\ \A i \in DOMAIN c.calls :
               IsGet(c.calls[i], SKYVERN_LOG)
               => /\ i = 3
                  /\ c.calls[2].op \in {"update_artifact_data", "create_log_artifact"}
                  /\ ~c.calls[2].raised
                  /\ c.e \notin RawStages

\* C8 witness: the update of the raw pass raised and the call has returned.
C8_Witness ==
    \E p \in Tasks :
        /\ Done(p)
        /\ call[p].e = "update_raw"
        /\ Len(call[p].calls) = 2

\* C9: the reconciler neither retries nor checks versions: a call makes at
\* most one lookup and one write per artifact type, and its update stores its
\* own payload whatever the artifact holds by then; so of two concurrent calls
\* for one entity the one with the older log may overwrite the newer one's
\* write (C9_LostUpdate), and neither notices.
C9_NoRetryNoVersionCheck ==
    /\ [](\A p \in Tasks :
              LET c == call[p] IN
              /\ Cardinality({i \in DOMAIN c.calls : IsGet(c.calls[i], SKYVERN_LOG_RAW)}) <= 1
              /\ Cardinality({i \in DOMAIN c.calls : IsGet(c.calls[i], SKYVERN_LOG)}) <= 1
              /\ Len(c.calls) <= 4)
    /\ [][\A p \in Tasks :
              /\ (/\ call[p].pc = "reconcile_raw"
                  /\ call'[p].pc = "serialize_formatted"
                  /\ call[p].log_artifact # 0)
                 => store'[call[p].log_artifact].data = StrEncode(JsonDumps(call[p].log))
              /\ (/\ call[p].pc = "reconcile_formatted"
                  /\ call'[p].pc = "done"
                  /\ call'[p].e = None
                  /\ call[p].formatted_log_artifact # 0)
                 => store'[call[p].formatted_log_artifact].data
                        = StrEncode(LogEncode(call[p].log))]_vars

\* C9 witness: two finished calls for one entity looked up the same raw-log artifact and
\* both updated it without error; q started later, on a longer log, and the
\* artifact holds the bytes of p's shorter log.
C9_LostUpdate ==
    \E p, q \in Tasks :
        /\ p # q
        /\ Done(p) /\ Done(q)
        /\ call[p].e = None /\ call[q].e = None
        /\ call[p].log_entity_type = call[q].log_entity_type
        /\ call[p].log_entity_id = call[q].log_entity_id
        /\ call[p].organization_id = call[q].organization_id
        /\ call[p].seq < call[q].seq
        /\ Len(call[p].log) < Len(call[q].log)
        /\ SubSeq(call[q].log, 1, Len(call[p].log)) = call[p].log
        /\ \E a \in DOMAIN store :
               /\ Found(call[p].calls[1]) /\ call[p].calls[1].result = a
               /\ Found(call[q].calls[1]) /\ call[q].calls[1].result = a
               /\ call[p].calls[2].op = "update_artifact_data" /\ ~call[p].calls[2].raised
               /\ call[q].calls[2].op = "update_artifact_data" /\ ~call[q].calls[2].raised
               /\ call[q].calls[2].data = StrEncode(JsonDumps(call[q].log))
               /\ store[a].data = StrEncode(JsonDumps(call[p].log))

Entity(c) == <<c.log_entity_type, c.log_entity_id>>

\* The store holds exactly one artifact of the type for the call's entity and
\* organization, and it holds data.
HoldsExactlyOne(c, artifact_type, data) ==
    /\ Cardinality(Matching(store, artifact_type, c)) = 1
    /\ \A a \in Matching(store, artifact_type, c) : store[a].data = data

SavedExactlyOnce(c) ==
    /\ HoldsExactlyOne(c, SKYVERN_LOG_RAW, StrEncode(JsonDumps(c.log)))
    /\ HoldsExactlyOne(c, SKYVERN_LOG, StrEncode(LogEncode(c.log)))

OnlyUpdates(c) ==
    \A i \in DOMAIN c.calls : c.calls[i].op # "create_log_artifact"

CreatesBoth(c) ==
    /\ \E i \in DOMAIN c.calls : IsCreate(c.calls[i], SKYVERN_LOG_RAW)
    /\ \E j \in DOMAIN c.calls : IsCreate(c.calls[j], SKYVERN_LOG)

\* C10 as stated: after each of a sequence of non-failing calls, the store
\* holds exactly one raw-log and one formatted-log artifact of the entity with
\* the encodings of that call's log; the first call for the entity creates
\* both and every later one only updates.
C10_FirstCallCreatesBoth ==
    \A p \in Tasks :
        LET c == call[p] IN
        (Done(p) /\ c.has_context)
        => /\ SavedExactlyOnce(c)
           /\ IF Entity(c) \in served THEN OnlyUpdates(c) ELSE CreatesBoth(c)

\* C10 as amended: as stated, except that each call creates an artifact exactly when its lookup
\* found none and updates it otherwise, so the first call creates only what
\* the store lacks, and every later call only updates.
C10_CreateOrUpdateIsIdempotent ==
    \A p \in Tasks :
        LET c == call[p] IN
        (Done(p) /\ c.has_context)
        => /\ SavedExactlyOnce(c)
           /\ Entity(c) \in served => OnlyUpdates(c)
           /\ Len(c.calls) = 4
           /\ \A i \in {1, 3} :
                  /\ IsGet(c.calls[i], IF i = 1 THEN SKYVERN_LOG_RAW ELSE SKYVERN_LOG)
                  /\ Absent(c.calls[i]) <=> c.calls[i + 1].op = "create_log_artifact"
                  /\ Found(c.calls[i]) <=> c.calls[i + 1].op = "update_artifact_data"

\* C10 witness: a later call for an already saved entity has finished over a
\* non-empty log, having only updated.
C10_Witness ==
    \E p \in Tasks :
        /\ Done(p)
        /\ call[p].has_context
        /\ Entity(call[p]) \in served
        /\ call[p].log # <<>>
        /\ OnlyUpdates(call[p])
        /\ SavedExactlyOnce(call[p])

====
